---- MODULE Spec2Model ----
(***************************************************************************)
(* Device-bound session registry of cms_backend: login, refresh-token      *)
(* rotation, per-request session validation, logout and account disable,   *)
(* as concurrent requests against one shared store.                        *)
(*                                                                         *)
(* Every request is one transaction (get_db): its SELECTs read the         *)
(* committed store, its writes are flushed at the end of the handler and   *)
(* committed when the handler returns; a handler that raises commits       *)
(* nothing.  A request is therefore a read step and a commit step.  One    *)
(* request at a time is observed in flight between its two steps (proc);   *)
(* the requests of the other workers run to completion between them.       *)
(*                                                                         *)
(* Time is a clock in whole ticks (a tick is one clock second for the      *)
(* token expiry claim, which jose encodes in whole seconds).               *)
(***************************************************************************)
EXTENDS Integers, Sequences, FiniteSets, TLC

\* ----------------------------------------------------------------- bounds
MaxTime == 2
MaxSessions == 2
\* settings.SESSION_INACTIVITY_TIMEOUT_MINUTES * 60, in ticks
InactivityTimeout == 1
\* settings.ACCESS_TOKEN_EXPIRE_MINUTES and settings.REFRESH_TOKEN_EXPIRE_DAYS, in ticks
AccessTokenExpire == 1
RefreshTokenExpire == 2

Users == {"u1"}
Emails == Users \cup {"nobody"}
\* "u2": an identity a signed token may name that owns no session here
Subjects == Users \cup {"u2"}
Devices == {"A", "B"}

\* permission codes, and the role -> codes mapping that permission_seed.seed stores
\* for a role it creates (of the twelve codes and five roles the model keeps three and two)
Codes == {"inventory.inward.create", "inventory.view", "invoice.view"}
ROLE_PERMISSIONS ==
    [r \in {"OPERATOR", "CLIENT"} |->
        IF r = "OPERATOR" THEN {"inventory.inward.create", "inventory.view"}
        ELSE {"inventory.view", "invoice.view"}]

VARIABLES
    now,        \* datetime.now(timezone.utc)
    users,      \* table users: user id -> row
    sessions,   \* table user_sessions: sequence of rows, a row's id is its index
    proc,       \* the request in flight between its read and its commit, with its locals
    disabled_upto, \* per user, the session rows that existed when disable_user last
                   \* completed, -1 before (history, read by no request)
    logged_out, \* the sessions a logout has ended (history, read by no request)
    invitations,     \* table invitations: sequence of rows, a row's token is its index
    role_permissions, \* tables roles and role_permissions: role name -> permission codes
    warehouses  \* table warehouses: warehouse id -> name

vars == <<now, users, sessions, proc, disabled_upto, logged_out, invitations,
          role_permissions, warehouses>>

\* ------------------------------------------------------------ app/core/security.py
NoToken == [type |-> "none", sub |-> "", session_id |-> 0, device_id |-> "", exp |-> 0]

hash_token(token) == <<"sha256", token>>

create_access_token(sub, session_id, device_id) ==
    [type |-> "access", sub |-> sub, session_id |-> session_id,
     device_id |-> device_id, exp |-> now + AccessTokenExpire]

create_refresh_token(sub, session_id, device_id) ==
    [type |-> "refresh", sub |-> sub, session_id |-> session_id,
     device_id |-> device_id, exp |-> now + RefreshTokenExpire]

\* jwt.decode of a token signed with SECRET_KEY: raises when exp is in the past
jwt_decode_ok(token) == token.exp >= now

\* the signed tokens a client may present: any claims, issued not later than now
Expire(type) == IF type = "access" THEN AccessTokenExpire ELSE RefreshTokenExpire

Tokens ==
    {tk \in [type : {"access", "refresh"}, sub : Subjects, session_id : 1..MaxSessions,
             device_id : Devices, exp : 0..(MaxTime + RefreshTokenExpire)] :
        tk.exp - Expire(tk.type) \in 0..now}

\* ------------------------------------------------------ app/services/session_service.py
SessionIds == 1..Len(sessions)

\* faulty variant of get_active_sessions: the rows are selected whatever their flag
\* (C36 fails under it)
get_active_sessions_any_flag(user_id) ==
    {s \in SessionIds : sessions[s].user_id = user_id}

get_active_sessions(user_id) ==
    {s \in SessionIds : sessions[s].user_id = user_id /\ sessions[s].is_active}

get_active_session_by_id(table, session_id) ==
    {s \in DOMAIN table : s = session_id /\ table[s].is_active}

\* faulty variant of deactivate_session: the flag is never cleared (C7 fails under it)
deactivate_session_keeps_flag(table, session_id) == table

deactivate_session(table, session_id) ==
    [s \in DOMAIN table |->
        IF s = session_id THEN [table[s] EXCEPT !.is_active = FALSE] ELSE table[s]]

\* faulty variant of deactivate_all_user_sessions: only rows already inactive are
\* selected, so no active row is touched (C5 fails under it)
deactivate_all_user_sessions_skips_active(table, user_id) ==
    [s \in DOMAIN table |->
        IF table[s].user_id = user_id /\ ~table[s].is_active
        THEN [table[s] EXCEPT !.is_active = FALSE] ELSE table[s]]

\* faulty variant of deactivate_all_user_sessions: the WHERE clause has no user_id, so
\* every active row is flagged (C34 fails under it)
deactivate_all_user_sessions_every_user(table, user_id) ==
    [s \in DOMAIN table |->
        IF table[s].is_active THEN [table[s] EXCEPT !.is_active = FALSE] ELSE table[s]]

deactivate_all_user_sessions(table, user_id) ==
    [s \in DOMAIN table |->
        IF table[s].user_id = user_id /\ table[s].is_active
        THEN [table[s] EXCEPT !.is_active = FALSE] ELSE table[s]]

\* ------------------------------------------------------------------- requests
Idle == [pc |-> "idle", op |-> "", user_id |-> "", device_id |-> "", session_id |-> 0,
         t |-> 0, stale |-> {}, token |-> NoToken, overtaken |-> FALSE]

\* an HTTP response: status code, the HTTPException's detail, and the token pair's
\* session id and refresh token when the body is a TokenResponse
Response(op, code, detail, session_id, refresh_token) ==
    [op |-> op, code |-> code, detail |-> detail,
     session_id |-> session_id, refresh_token |-> refresh_token]

NoResponse == Response("", 0, "", 0, NoToken)

\* what the read step of a request yields: a response, or the locals it commits with
Raise(op, code, detail) ==
    [done |-> TRUE, response |-> Response(op, code, detail, 0, NoToken), locals |-> Idle]

Proceed(locals) == [done |-> FALSE, response |-> NoResponse, locals |-> locals]

Init ==
    /\ now = 0
    /\ users = [u \in Users |-> [status |-> "ACTIVE", roles |-> {"OPERATOR"}]]
    /\ sessions = <<>>
    /\ proc = Idle
    /\ disabled_upto = [u \in Users |-> -1]
    /\ logged_out = {}
    /\ invitations = <<>>
    /\ role_permissions = ROLE_PERMISSIONS
    /\ warehouses = [w \in {"w1"} |-> "n0"]

\* --------------------------------------------- auth_service.authenticate_user
\* faulty variant of stale_sessions: a row at the edge of the window and beyond is
\* never collected (C10 fails under it)
stale_sessions_never(active, t) ==
    {s \in active : t - sessions[s].last_seen_at > InactivityTimeout + MaxTime}

stale_sessions(active, t) ==
    {s \in active : t - sessions[s].last_seen_at > InactivityTimeout}

device_conflict(truly_active, device_id) ==
    \E s \in truly_active : sessions[s].device_id # device_id

\* faulty variant of authenticate_user_read: the user's status is not looked at
\* (C31 fails under it)
authenticate_user_read_any_status(email, password_ok, device_id) ==
    IF email \notin Users \/ ~password_ok
    THEN {Raise("login", 401, "Invalid email or password")}
    ELSE LET active == get_active_sessions(email)
             stale == stale_sessions(active, now)
             truly_active == active \ stale
         IN  IF device_conflict(truly_active, device_id)
             THEN {Raise("login", 409, "Active session exists on another device")}
             ELSE {Proceed([Idle EXCEPT !.pc = "commit", !.op = "login", !.user_id = email,
                                        !.device_id = device_id, !.t = now, !.stale = stale,
                                        !.session_id = existing]) :
                      existing \in (IF truly_active = {} THEN {0} ELSE truly_active)}

\* lines 97-151: credentials, status, garbage collection, concurrency rule, reuse
authenticate_user_read(email, password_ok, device_id) ==
    IF email \notin Users \/ ~password_ok
    THEN {Raise("login", 401, "Invalid email or password")}
    ELSE IF users[email].status = "DISABLED"
    THEN {Raise("login", 403, "Account is disabled")}
    ELSE LET active == get_active_sessions(email)
             stale == stale_sessions(active, now)
             truly_active == active \ stale
         IN  IF device_conflict(truly_active, device_id)
             THEN {Raise("login", 409, "Active session exists on another device")}
             ELSE {Proceed([Idle EXCEPT !.pc = "commit", !.op = "login", !.user_id = email,
                                        !.device_id = device_id, !.t = now, !.stale = stale,
                                        !.session_id = existing]) :
                      existing \in (IF truly_active = {} THEN {0} ELSE truly_active)}

\* faulty variant of authenticate_user_commit: the rows found stale keep their flag
\* (C25 fails under it)
authenticate_user_commit_keeps_stale(l) ==
    LET session_id == IF l.session_id # 0 THEN l.session_id ELSE Len(sessions) + 1
        refresh_token == create_refresh_token(l.user_id, session_id, l.device_id)
    IN  [sessions |->
            IF l.session_id # 0
            THEN [sessions EXCEPT ![session_id].refresh_token_hash = hash_token(refresh_token),
                                  ![session_id].last_seen_at = l.t]
            ELSE Append(sessions,
                        [user_id |-> l.user_id, device_id |-> l.device_id,
                         refresh_token_hash |-> hash_token(refresh_token),
                         last_seen_at |-> now, is_active |-> TRUE]),
         response |-> Response("login", 200, IF l.session_id # 0 THEN "reused" ELSE "created",
                               session_id, refresh_token)]

\* lines 151-186: tokens, the reused row's update or the new row, flush, commit
authenticate_user_commit(l) ==
    LET session_id == IF l.session_id # 0 THEN l.session_id ELSE Len(sessions) + 1
        refresh_token == create_refresh_token(l.user_id, session_id, l.device_id)
        collected == [s \in DOMAIN sessions |->
                        IF s \in l.stale THEN [sessions[s] EXCEPT !.is_active = FALSE]
                        ELSE sessions[s]]
    IN  [sessions |->
            IF l.session_id # 0
            THEN [collected EXCEPT ![session_id].refresh_token_hash = hash_token(refresh_token),
                                   ![session_id].last_seen_at = l.t]
            ELSE Append(collected,
                        [user_id |-> l.user_id, device_id |-> l.device_id,
                         refresh_token_hash |-> hash_token(refresh_token),
                         last_seen_at |-> now, is_active |-> TRUE]),
         response |-> Response("login", 200, IF l.session_id # 0 THEN "reused" ELSE "created",
                               session_id, refresh_token)]

\* ------------------------------------------ auth_service.refresh_access_token
\* faulty variant of refresh_access_token_read: the stored hash is not compared
\* (C27 fails under it)
refresh_access_token_read_ignores_hash(table, token) ==
    LET found == get_active_session_by_id(table, token.session_id)
    IN  IF ~jwt_decode_ok(token)
        THEN {Raise("refresh", 401, "Invalid or expired refresh token")}
        ELSE IF token.type # "refresh"
        THEN {Raise("refresh", 401, "Invalid token type")}
        ELSE IF found = {} \/ (\E s \in found : table[s].user_id # token.sub)
        THEN {Raise("refresh", 401, "Session not found or inactive")}
        ELSE {Proceed([Idle EXCEPT !.pc = "commit", !.op = "refresh", !.user_id = token.sub,
                                   !.session_id = token.session_id, !.token = token,
                                   !.device_id = table[token.session_id].device_id])}

\* faulty variant of refresh_access_token_read: any token that names an active session
\* of its user is exchanged, whatever its type and hash (C28 fails under it)
refresh_access_token_read_any_type(table, token) ==
    LET found == get_active_session_by_id(table, token.session_id)
    IN  IF ~jwt_decode_ok(token)
        THEN {Raise("refresh", 401, "Invalid or expired refresh token")}
        ELSE IF found = {} \/ (\E s \in found : table[s].user_id # token.sub)
        THEN {Raise("refresh", 401, "Session not found or inactive")}
        ELSE {Proceed([Idle EXCEPT !.pc = "commit", !.op = "refresh", !.user_id = token.sub,
                                   !.session_id = token.session_id, !.token = token,
                                   !.device_id = table[token.session_id].device_id])}

\* lines 196-235: decode, type, active session of the token's user, stored hash
refresh_access_token_read(table, token) ==
    LET found == get_active_session_by_id(table, token.session_id)
    IN  IF ~jwt_decode_ok(token)
        THEN {Raise("refresh", 401, "Invalid or expired refresh token")}
        ELSE IF token.type # "refresh"
        THEN {Raise("refresh", 401, "Invalid token type")}
        ELSE IF found = {} \/ (\E s \in found : table[s].user_id # token.sub)
        THEN {Raise("refresh", 401, "Session not found or inactive")}
        ELSE IF table[token.session_id].refresh_token_hash # hash_token(token)
        THEN {Raise("refresh", 401, "Refresh token does not match")}
        ELSE {Proceed([Idle EXCEPT !.pc = "commit", !.op = "refresh", !.user_id = token.sub,
                                   !.session_id = token.session_id, !.token = token,
                                   !.device_id = table[token.session_id].device_id])}

\* lines 237-270: the user's status, the rotated pair, the row's update, flush, commit
refresh_access_token_commit(l) ==
    LET new_refresh_token == create_refresh_token(l.user_id, l.session_id, l.device_id)
    IN  IF users[l.user_id].status = "DISABLED"
        THEN \* deactivate_session, then 403: the transaction is rolled back
             [sessions |-> sessions,
              response |-> Response("refresh", 403, "Account is disabled", 0, NoToken)]
        ELSE [sessions |-> [sessions EXCEPT
                  ![l.session_id].refresh_token_hash = hash_token(new_refresh_token),
                  ![l.session_id].last_seen_at = now],
              response |-> Response("refresh", 200, "rotated", l.session_id, new_refresh_token)]

\* ------------------------------------------- security.get_current_user_token
\* lines 137-140: the inactivity timeout check
\* faulty variant of inactivity_timeout: times out one tick early (C8 fails under it)
inactivity_timeout_early(session) == now - session.last_seen_at >= InactivityTimeout

inactivity_timeout(session) == now - session.last_seen_at > InactivityTimeout

\* payload.get("user_id"): _build_access_payload puts the claim into an access token,
\* a refresh token carries "sub" only
payload_user_id(token) == IF token.type = "access" THEN token.sub ELSE ""

\* the dependency of every protected route; op is the route it guards; the payload it
\* returns is kept as the locals user_id, session_id, device_id
get_current_user_token(token, op) ==
    LET found == {s \in SessionIds : /\ s = token.session_id
                                     /\ sessions[s].user_id = token.sub
                                     /\ sessions[s].is_active}
    IN  IF ~jwt_decode_ok(token)
        THEN {Raise(op, 401, "Invalid or expired token")}
        ELSE IF found = {}
        THEN {Raise(op, 401, "Session expired or revoked")}
        ELSE IF sessions[token.session_id].device_id # token.device_id
        THEN {Raise(op, 401, "Device mismatch")}
        ELSE IF inactivity_timeout(sessions[token.session_id])
        THEN {Raise(op, 401, "Session timed out due to inactivity")}
        ELSE {Proceed([Idle EXCEPT !.pc = "commit", !.op = op,
                                   !.user_id = payload_user_id(token),
                                   !.session_id = token.session_id,
                                   !.device_id = token.device_id, !.t = now])}

\* auth_controller.logout: deactivate the session of the validated token
logout(l) ==
    [sessions |-> deactivate_session([sessions EXCEPT ![l.session_id].last_seen_at = l.t],
                                     l.session_id),
     response |-> Response("logout", 200, "Logged out successfully", l.session_id, NoToken)]

\* any route behind rbac.get_current_active_user
get_current_active_user(l) ==
    IF l.user_id = ""
    THEN [sessions |-> sessions,
          response |-> Response("request", 401, "Invalid token payload", l.session_id, NoToken)]
    ELSE IF users[l.user_id].status = "DISABLED"
    THEN [sessions |-> sessions,
          response |-> Response("request", 403, "Account disabled", l.session_id, NoToken)]
    ELSE [sessions |-> [sessions EXCEPT ![l.session_id].last_seen_at = l.t],
          response |-> Response("request", 200, "", l.session_id, NoToken)]

\* --------------------------------------------------------------- the requests
Routes == {"login", "refresh", "logout", "request"}

\* the inputs of a request: a login's form, or the bearer or refresh token
Requests ==
    [op : {"login"}, email : Emails, password_ok : BOOLEAN, device_id : Devices,
     token : {NoToken}]
    \cup [op : Routes \ {"login"}, email : {""}, password_ok : {FALSE}, device_id : {""},
          token : Tokens]

Read(r) ==
    CASE r.op = "login" -> authenticate_user_read(r.email, r.password_ok, r.device_id)
      [] r.op = "refresh" -> refresh_access_token_read(sessions, r.token)
      [] OTHER -> get_current_user_token(r.token, r.op)

Commit(l) ==
    CASE l.op = "login" -> authenticate_user_commit(l)
      [] l.op = "refresh" -> refresh_access_token_commit(l)
      [] l.op = "logout" -> logout(l)
      [] OTHER -> get_current_active_user(l)

\* a row the request in flight will still insert
PendingInserts == IF proc.op = "login" /\ proc.session_id = 0 THEN 1 ELSE 0

Inserts(l) == l.op = "login" /\ l.session_id = 0

\* whether this exchange returns a token pair for the refresh token that the request
\* in flight has submitted too (history, read by no request)
Overtakes(l) ==
    /\ l.op = "refresh" /\ proc.op = "refresh" /\ l.token = proc.token
    /\ Commit(l).response.code = 200

LoggedOut(l) == IF l.op = "logout" THEN logged_out \cup {l.session_id} ELSE logged_out

\* a request that is served without another request in between
Serve(r) ==
    /\ \E o \in Read(r) :
          IF o.done
          THEN UNCHANGED <<sessions, proc, logged_out>>
          ELSE /\ Inserts(o.locals) => Len(sessions) + PendingInserts < MaxSessions
               /\ sessions' = Commit(o.locals).sessions
               /\ proc' = IF Overtakes(o.locals) THEN [proc EXCEPT !.overtaken = TRUE]
                          ELSE proc
               /\ logged_out' = LoggedOut(o.locals)
    /\ UNCHANGED <<now, users, disabled_upto, invitations, role_permissions, warehouses>>

\* the read step of the request in flight
Begin(r) ==
    /\ proc.pc = "idle"
    /\ \E o \in Read(r) :
          /\ ~o.done
          /\ Inserts(o.locals) => Len(sessions) < MaxSessions
          /\ proc' = o.locals
    /\ UNCHANGED <<now, users, sessions, disabled_upto, logged_out, invitations, role_permissions, warehouses>>

\* its commit step
Finish ==
    /\ proc.pc = "commit"
    /\ sessions' = Commit(proc).sessions
    /\ logged_out' = LoggedOut(proc)
    /\ proc' = Idle
    /\ UNCHANGED <<now, users, disabled_upto, invitations, role_permissions, warehouses>>

\* ------------------------------------------------- user_service.disable_user
disable_user(target_user_id) ==
    /\ users' = [users EXCEPT ![target_user_id].status = "DISABLED"]
    /\ sessions' = deactivate_all_user_sessions(sessions, target_user_id)
    /\ disabled_upto' = [disabled_upto EXCEPT ![target_user_id] = Len(sessions)]
    /\ UNCHANGED <<now, proc, logged_out, invitations, role_permissions, warehouses>>

Tick ==
    /\ now < MaxTime
    /\ now' = now + 1
    /\ UNCHANGED <<users, sessions, proc, disabled_upto, logged_out, invitations, role_permissions, warehouses>>

Next ==
    \/ \E r \in Requests : Serve(r)
    \/ \E r \in Requests : Begin(r)
    \/ Finish
    \/ \E u \in Users : disable_user(u)
    \/ Tick

Spec == Init /\ [][Next]_vars

\* ------------------------------------------------------------------- claims
InWindow(s) == now - sessions[s].last_seen_at <= InactivityTimeout

Live(s) == sessions[s].is_active /\ InWindow(s)

LoginConflict == Raise("login", 409, "Active session exists on another device")

\* C1: while user u has an active session on device A whose last_seen_at is within
\* the inactivity window, every authenticate call for u with correct credentials and
\* a device B # A fails with 409 Conflict (and so commits no row).
C1_ConflictOnOtherDevice ==
    \A u \in Users, s \in SessionIds, B \in Devices :
        (sessions[s].user_id = u /\ Live(s) /\ sessions[s].device_id # B)
            => authenticate_user_read(u, TRUE, B) = {LoginConflict}

\* C2: at most one session row with is_active = true exists per (identity, device).
C2_OneActiveRowPerDevice ==
    \A s1, s2 \in SessionIds :
        (/\ sessions[s1].is_active /\ sessions[s2].is_active
         /\ sessions[s1].user_id = sessions[s2].user_id
         /\ sessions[s1].device_id = sessions[s2].device_id) => s1 = s2

\* the table after a refresh with `token` has returned a token pair; {} when it does not
Rotated(token) ==
    {refresh_access_token_commit(o.locals).sessions :
        o \in {x \in refresh_access_token_read(sessions, token) :
                  ~x.done /\ refresh_access_token_commit(x.locals).response.code = 200}}

\* C3: once a refresh call has rotated a session's refresh token T1, a refresh call
\* that submits T1 fails with 401.
C3_RotatedTokenRejected ==
    \A T1 \in Tokens : \A table \in Rotated(T1) :
        \A o \in refresh_access_token_read(table, T1) : o.done /\ o.response.code = 401

\* C4: of two concurrent refresh calls that submit the same refresh token, at most one
\* returns a token pair: the call in flight does not return one when the other has.
C4_ExchangedAtMostOnce ==
    [][(proc.op = "refresh" /\ proc.overtaken /\ proc' = Idle)
          => refresh_access_token_commit(proc).response.code # 200]_vars

\* the tokens bound to session s of user u that jwt.decode accepts
BoundTokens(type, u, s) ==
    {tk \in Tokens : /\ tk.type = type /\ tk.sub = u /\ tk.session_id = s
                     /\ tk.device_id = sessions[s].device_id /\ jwt_decode_ok(tk)}

Unauthorized(outcomes) == \A o \in outcomes : o.done /\ o.response.code = 401

\* the rows of u that existed when disable_user(u) last completed
DisabledSessions(u) == {s \in SessionIds : s <= disabled_upto[u] /\ sessions[s].user_id = u}

\* C5: after disable_user(u) has completed, every session of u that existed then is
\* inactive, and every request bearing an access token of such a session fails with
\* 401 although the token's signature and expiry are intact.
C5_DisableRevokes ==
    \A u \in Users : \A s \in DisabledSessions(u) :
        /\ ~sessions[s].is_active
        /\ \A tk \in BoundTokens("access", u, s), op \in {"logout", "request"} :
              Unauthorized(get_current_user_token(tk, op))

\* disable_user(u) has completed on a session whose access token would pass but for
\* the revocation: unexpired, and last seen within the inactivity window
C5_Witness ==
    \E u \in Users : \E s \in DisabledSessions(u) :
        /\ users[u].status = "DISABLED" /\ InWindow(s)
        /\ BoundTokens("access", u, s) # {}

\* C6: an identity whose status is DISABLED has no session with is_active = true.
C6_DisabledHasNoActiveSession ==
    \A s \in SessionIds :
        users[sessions[s].user_id].status = "DISABLED" => ~sessions[s].is_active

\* C7: after logout of session S, every request carrying an access token bound to S
\* and every refresh carrying a refresh token bound to S fails with 401, although the
\* tokens are still valid.
C7_LogoutRevokes ==
    \A s \in logged_out :
        /\ \A tk \in BoundTokens("access", sessions[s].user_id, s),
              op \in {"logout", "request"} :
              Unauthorized(get_current_user_token(tk, op))
        /\ \A tk \in BoundTokens("refresh", sessions[s].user_id, s) :
              Unauthorized(refresh_access_token_read(sessions, tk))

\* a logged-out session whose stored refresh token and whose access tokens would pass
\* but for the logout: unexpired, last seen within the window, the user enabled
C7_Witness ==
    \E s \in logged_out :
        /\ InWindow(s) /\ users[sessions[s].user_id].status = "ACTIVE"
        /\ BoundTokens("access", sessions[s].user_id, s) # {}
        /\ \E tk \in BoundTokens("refresh", sessions[s].user_id, s) :
              sessions[s].refresh_token_hash = hash_token(tk)

\* whether the registry holds a row that validates the token's claims
SessionValid(tk) ==
    \E s \in SessionIds :
        /\ s = tk.session_id
        /\ sessions[s].user_id = tk.sub
        /\ sessions[s].is_active
        /\ sessions[s].device_id = tk.device_id
        /\ now - sessions[s].last_seen_at <= InactivityTimeout

\* C8: validation of a token with a valid signature and expiry succeeds iff a session
\* row with the token's session id exists, belongs to the token's identity, is active,
\* has the token's device id and was last seen within the inactivity window; in every
\* other case it fails with 401.
C8_ValidationIff ==
    \A tk \in Tokens, op \in {"logout", "request"} :
        jwt_decode_ok(tk) =>
            IF SessionValid(tk)
            THEN \A o \in get_current_user_token(tk, op) :
                    ~o.done /\ o.locals.session_id = tk.session_id
            ELSE Unauthorized(get_current_user_token(tk, op))

\* a validated request is in flight while the same session rejects a token for each of
\* the other reasons a live row gives: another identity, another device
C8_Witness ==
    /\ proc.op \in {"logout", "request"}
    /\ \E tk \in Tokens :
          /\ jwt_decode_ok(tk) /\ SessionValid(tk) /\ tk.session_id = proc.session_id
          /\ ~SessionValid([tk EXCEPT !.sub = "u2"])
          /\ \E d \in Devices : ~SessionValid([tk EXCEPT !.device_id = d])
    /\ \E s \in SessionIds : sessions[s].is_active /\ ~InWindow(s)

\* C9: when u has an active, non-timed-out session S1 on device d, an authenticate
\* call for u with device d succeeds, returns tokens carrying S1's id, overwrites
\* S1's stored refresh hash with the hash of the new refresh token, and adds no row.
C9_SameDeviceReuses ==
    \A u \in Users, S1 \in SessionIds :
        (sessions[S1].user_id = u /\ Live(S1)) =>
            \A o \in authenticate_user_read(u, TRUE, sessions[S1].device_id) :
                /\ ~o.done
                /\ LET after == authenticate_user_commit(o.locals)
                   IN  /\ after.response.code = 200
                       /\ after.response.session_id = S1
                       /\ after.sessions[S1].refresh_token_hash
                              = hash_token(after.response.refresh_token)
                       /\ Len(after.sessions) = Len(sessions)

\* how session S1 of u has ended: by logout, by inactivity timeout, or by disable
EndedByLogout(S1) == S1 \in logged_out
EndedByTimeout(S1) == ~InWindow(S1)
EndedByDisable(u, S1) == S1 \in DisabledSessions(u)

\* an authenticate call of u from device B succeeds and creates a session other than S1
CreatesNewSession(u, S1, B) ==
    \A o \in authenticate_user_read(u, TRUE, B) :
        /\ ~o.done
        /\ LET after == authenticate_user_commit(o.locals)
           IN  /\ after.response.code = 200
               /\ Len(after.sessions) = Len(sessions) + 1
               /\ after.response.session_id = Len(after.sessions)
               /\ after.response.session_id # S1
               /\ after.sessions[after.response.session_id].is_active
               /\ after.sessions[after.response.session_id].device_id = B

RefreshTokens(s) == {tk \in Tokens : tk.type = "refresh" /\ tk.session_id = s}

\* a refresh call that submits tk returns a token pair
Accepted(tk) ==
    \A o \in refresh_access_token_read(sessions, tk) :
        ~o.done /\ refresh_access_token_commit(o.locals).response.code = 200

\* a login or refresh that returns a token pair leaves the hash of the refresh token
\* it returns in the session's row
StoresIssued(l) ==
    (l.op \in {"login", "refresh"} /\ Commit(l).response.code = 200) =>
        Commit(l).sessions[Commit(l).response.session_id].refresh_token_hash
            = hash_token(Commit(l).response.refresh_token)

\* C11: for every active session exactly one refresh token is accepted by refresh,
\* the one issued last (every issuance stores the hash of its token, and the token
\* whose hash is stored is the only one accepted); every other refresh token naming
\* the session is rejected.
C11_ExactlyOneRefreshTokenAccepted ==
    /\ \A r \in Requests : \A o \in Read(r) : ~o.done => StoresIssued(o.locals)
    /\ proc.pc = "commit" => StoresIssued(proc)
    /\ \A s \in SessionIds :
          sessions[s].is_active =>
              /\ {tk \in RefreshTokens(s) : Accepted(tk)}
                    = {tk \in RefreshTokens(s) : hash_token(tk) = sessions[s].refresh_token_hash}
              /\ Cardinality({tk \in RefreshTokens(s) : Accepted(tk)}) = 1

\* ============================================================================
\* Invitation lifecycle: invitation_service.create_invitation and
\* auth_service.accept_invitation, with user_service.disable_user, as concurrent
\* requests.  Here the users table starts empty: an identity exists once an accept has
\* created it.
\* ============================================================================
MaxInvitations == 2
\* expires_in_hours = 72, in ticks
InvitationExpire == 1

\* the roles table as seeded; "AUDITOR" is a role_assigned that names no row of it
RoleCatalog == {"OPERATOR", "CLIENT"}
RoleNames == RoleCatalog \cup {"AUDITOR"}
Passwords == {"p1", "p2"}
NoWarehouse == "none"
NoClient == "none"
Warehouses == {NoWarehouse, "w1"}

hash_password(plain) == <<"bcrypt", plain>>

\* what a handler leaves behind: its response, and the tables as its database session
\* holds them when it returns or raises
Result(code, detail, users_, invitations_) ==
    [code |-> code, detail |-> detail, users |-> users_, invitations |-> invitations_]

\* the unit of work around a handler: its writes are committed when it returns and
\* rolled back when it raises
get_db(result) ==
    IF result.code \in {200, 201}
    THEN [users |-> result.users, invitations |-> result.invitations]
    ELSE [users |-> users, invitations |-> invitations]

InvIdle == [pc |-> "idle", op |-> "", email |-> "", role_assigned |-> "", mail_ok |-> FALSE,
            token |-> 0, password |-> "", warehouse_id |-> NoWarehouse,
            existing_active |-> FALSE, pending |-> FALSE, invite |-> 0, expired |-> FALSE,
            user_status |-> "", had_role |-> FALSE]

\* ------------------------------------- invitation_service.create_invitation
\* faulty variant of create_invitation_read: a user of any status blocks the
\* invitation (C18 fails under it)
create_invitation_read_any_status(email, role_assigned, mail_ok) ==
    [InvIdle EXCEPT
        !.pc = "commit", !.op = "create_invitation", !.email = email,
        !.role_assigned = role_assigned, !.mail_ok = mail_ok,
        !.existing_active = (email \in DOMAIN users),
        !.pending = (\E i \in DOMAIN invitations :
                        /\ invitations[i].email = email
                        /\ invitations[i].status = "PENDING")]

\* lines 41-60: the two SELECTs
create_invitation_read(email, role_assigned, mail_ok) ==
    [InvIdle EXCEPT
        !.pc = "commit", !.op = "create_invitation", !.email = email,
        !.role_assigned = role_assigned, !.mail_ok = mail_ok,
        !.existing_active = (email \in DOMAIN users /\ users[email].status = "ACTIVE"),
        !.pending = (\E i \in DOMAIN invitations :
                        /\ invitations[i].email = email
                        /\ invitations[i].status = "PENDING")]

\* faulty variant of create_invitation: an invitation of the email that is no longer
\* PENDING is opened again instead of a new row being added (C16 fails under it)
create_invitation_reopens(l) ==
    LET closed == {i \in DOMAIN invitations : invitations[i].email = l.email}
    IN  IF l.existing_active \/ l.pending \/ ~l.mail_ok
        THEN Result(409, "", users, invitations)
        ELSE IF closed = {}
        THEN Result(201, "", users,
                    Append(invitations,
                           [email |-> l.email, role_assigned |-> l.role_assigned,
                            token |-> Len(invitations) + 1,
                            expires_at |-> now + InvitationExpire, status |-> "PENDING"]))
        ELSE Result(201, "", users,
                    [i \in DOMAIN invitations |->
                        IF i \in closed
                        THEN [invitations[i] EXCEPT !.status = "PENDING",
                                                    !.expires_at = now + InvitationExpire]
                        ELSE invitations[i]])

\* lines 46-87: the two conflicts, the new row, the notification
create_invitation(l) ==
    IF l.existing_active
    THEN Result(409, "A user with this email already exists", users, invitations)
    ELSE IF l.pending
    THEN Result(409, "A pending invitation already exists for this email", users, invitations)
    ELSE LET added == Append(invitations,
                             [email |-> l.email, role_assigned |-> l.role_assigned,
                              token |-> Len(invitations) + 1,
                              expires_at |-> now + InvitationExpire,
                              status |-> "PENDING"])
         IN  IF l.mail_ok
             THEN Result(201, "", users, added)
             ELSE Result(500, "send_email raised", users, added)

\* ------------------------------------------- auth_service.accept_invitation
\* faulty variant of pending_invitation: the status filter is missing (C13 fails
\* under it)
pending_invitation_any_status(token) ==
    {i \in DOMAIN invitations : invitations[i].token = token}

\* lines 286-291: the invitation with this token, if it is PENDING
pending_invitation(token) ==
    {i \in DOMAIN invitations :
        invitations[i].token = token /\ invitations[i].status = "PENDING"}

\* lines 286-341: the SELECTs of the invitation, of the user with its roles, and the
\* clock; user_status "" stands for no user row
accept_invitation_read(token, password, warehouse_id) ==
    LET found == pending_invitation(token)
        invite == IF found = {} THEN 0 ELSE CHOOSE i \in found : TRUE
        email == IF invite = 0 THEN "" ELSE invitations[invite].email
        role == IF invite = 0 THEN "" ELSE invitations[invite].role_assigned
        known == email \in DOMAIN users
    IN  [InvIdle EXCEPT
            !.pc = "commit", !.op = "accept", !.token = token, !.password = password,
            !.warehouse_id = warehouse_id, !.invite = invite, !.email = email,
            !.role_assigned = role,
            !.expired = (invite # 0 /\ invitations[invite].expires_at < now),
            !.user_status = (IF known THEN users[email].status ELSE ""),
            !.had_role = (known /\ role \in users[email].roles)]

\* faulty variant of role_missing: an unknown role is attached like any other (C15
\* fails under it)
role_missing_ignored(role_assigned) == FALSE

\* lines 333-341: the SELECT of the assigned role finds no row
role_missing(role_assigned) == role_assigned \notin RoleCatalog

\* lines 293-363: the handler after its reads.  The ORM writes the columns whose value
\* the handler changed: the password always, the status unless it was read as ACTIVE.
accept_invitation(l) ==
    LET email == l.email
        created == [e \in DOMAIN users \cup {email} |->
                       IF e = email
                       THEN [status |-> "ACTIVE", password_hash |-> hash_password(l.password),
                             roles |-> {}, operator_profile |-> NoWarehouse,
                             client |-> NoClient]
                       ELSE users[e]]
        updated == [users EXCEPT
                       ![email].password_hash = hash_password(l.password),
                       ![email].status = IF l.user_status = "ACTIVE" THEN @ ELSE "ACTIVE"]
        users1 == IF l.user_status = "" THEN created ELSE updated
        users2 == [users1 EXCEPT ![email].roles = @ \cup {l.role_assigned}]
        users3 == IF l.role_assigned = "OPERATOR"
                  THEN [users2 EXCEPT ![email].operator_profile = l.warehouse_id]
                  ELSE users2
    IN  IF l.invite = 0
        THEN Result(400, "Invalid or expired invitation", users, invitations)
        ELSE IF l.expired
        THEN Result(400, "Invitation has expired", users,
                    [invitations EXCEPT ![l.invite].status = "EXPIRED"])
        ELSE IF l.user_status = "" /\ email \in DOMAIN users
        THEN Result(500, "IntegrityError: users.email", users, invitations)
        ELSE IF role_missing(l.role_assigned)
        THEN Result(500, "Assigned role does not exist", users1, invitations)
        ELSE IF l.role_assigned = "OPERATOR" /\ l.warehouse_id = NoWarehouse
        THEN Result(400, "Warehouse ID is required for OPERATOR role", users2, invitations)
        ELSE IF ~l.had_role /\ l.role_assigned \in users1[email].roles
        THEN Result(500, "IntegrityError: user_roles", users2, invitations)
        ELSE IF l.role_assigned = "OPERATOR" /\ users1[email].operator_profile # NoWarehouse
        THEN Result(500, "IntegrityError: operator_profiles", users3, invitations)
        ELSE Result(200, "", users3, [invitations EXCEPT ![l.invite].status = "ACCEPTED"])

\* ------------------------------------------------------- rbac/dependencies.py
\* lines 40-58: the user row with its roles and their permissions, loaded per request
load_user_with_permissions(user_id) ==
    [status |-> users[user_id].status,
     roles |-> [r \in users[user_id].roles |-> role_permissions[r]]]

\* faulty variant of collect_permission_codes: the codes are those the seed mapping
\* gives the role names, not the stored ones (C19 fails under it)
collect_permission_codes_seeded(user) ==
    UNION {ROLE_PERMISSIONS[r] : r \in DOMAIN user.roles}

\* lines 61-67: roles -> permissions flattened into a set of codes
collect_permission_codes(user) == UNION {user.roles[r] : r \in DOMAIN user.roles}

\* faulty variant of require_permission: the denial tells when warehouse.update is
\* among the missing codes (C24 fails under it)
require_permission_names_missing(required_codes, token_payload) ==
    IF token_payload.user_id = ""
    THEN [code |-> 401, detail |-> "Invalid token payload"]
    ELSE IF token_payload.user_id \notin DOMAIN users
    THEN [code |-> 401, detail |-> "User not found"]
    ELSE LET user == load_user_with_permissions(token_payload.user_id)
         IN  IF user.status = "DISABLED"
             THEN [code |-> 403, detail |-> "Account disabled"]
             ELSE IF ~(required_codes \subseteq collect_permission_codes(user))
             THEN [code |-> 403,
                   detail |-> IF "warehouse.update" \in
                                    required_codes \ collect_permission_codes(user)
                              THEN "Missing warehouse.update"
                              ELSE "Insufficient permissions"]
             ELSE [code |-> 200, detail |-> ""]

\* lines 82-118: require_permission(*required_codes).__call__(token_payload); of the
\* payload it reads the user_id claim only
require_permission(required_codes, token_payload) ==
    IF token_payload.user_id = ""
    THEN [code |-> 401, detail |-> "Invalid token payload"]
    ELSE IF token_payload.user_id \notin DOMAIN users
    THEN [code |-> 401, detail |-> "User not found"]
    ELSE LET user == load_user_with_permissions(token_payload.user_id)
         IN  IF user.status = "DISABLED"
             THEN [code |-> 403, detail |-> "Account disabled"]
             ELSE IF ~(required_codes \subseteq collect_permission_codes(user))
             THEN [code |-> 403, detail |-> "Insufficient permissions"]
             ELSE [code |-> 200, detail |-> ""]

\* the payloads of access tokens: the user_id claim and the role names the token
\* embedded when it was issued
Payloads == [user_id : DOMAIN users, role_names : SUBSET RoleCatalog]

ProtectedRequests == [payload : Payloads, required_codes : SUBSET Codes]

\* ------------------------------------------------------------ the requests
InvRequests ==
    [op : {"create_invitation"}, email : Users, role_assigned : RoleNames,
     mail_ok : BOOLEAN, token : {0}, password : {""}, warehouse_id : {NoWarehouse}]
    \cup [op : {"accept"}, email : {""}, role_assigned : {""}, mail_ok : {FALSE},
          token : 1..MaxInvitations, password : Passwords, warehouse_id : Warehouses]

InvRead(r) ==
    IF r.op = "create_invitation"
    THEN create_invitation_read(r.email, r.role_assigned, r.mail_ok)
    ELSE accept_invitation_read(r.token, r.password, r.warehouse_id)

InvHandle(l) ==
    IF l.op = "create_invitation" THEN create_invitation(l) ELSE accept_invitation(l)

\* a row of invitations the request in flight will still insert
InvPendingInserts == IF proc.op = "create_invitation" THEN 1 ELSE 0

\* the stored mapping: seed skips a role that exists, so a role's stored permissions
\* need not be the ones of ROLE_PERMISSIONS
RoleTables == {ROLE_PERMISSIONS, [ROLE_PERMISSIONS EXCEPT !["CLIENT"] = {"invoice.view"}]}

InvInit ==
    /\ now = 0
    /\ users = [u \in {} |-> [status |-> ""]]
    /\ sessions = <<>>
    /\ proc = InvIdle
    /\ disabled_upto = [u \in Users |-> -1]
    /\ logged_out = {}
    /\ invitations = <<>>
    /\ role_permissions \in RoleTables
    /\ warehouses = [w \in {"w1"} |-> "n0"]

\* a request that is served without another request in between
InvServe(r) ==
    /\ LET result == InvHandle(InvRead(r))
       IN  /\ Len(result.invitations) + InvPendingInserts <= MaxInvitations
           /\ users' = get_db(result).users
           /\ invitations' = get_db(result).invitations
    /\ UNCHANGED <<now, sessions, proc, disabled_upto, logged_out, role_permissions, warehouses>>

\* the read step of the request in flight; a request that its reads already doom
\* leaves nothing behind and is served by InvServe
InvBegin(r) ==
    /\ proc.pc = "idle"
    /\ InvHandle(InvRead(r)).code \in {200, 201}
    /\ Len(InvHandle(InvRead(r)).invitations) <= MaxInvitations
    /\ proc' = InvRead(r)
    /\ UNCHANGED <<now, users, sessions, disabled_upto, logged_out, invitations, role_permissions, warehouses>>

\* its commit step
InvFinish ==
    /\ proc.pc = "commit"
    /\ users' = get_db(InvHandle(proc)).users
    /\ invitations' = get_db(InvHandle(proc)).invitations
    /\ proc' = InvIdle
    /\ UNCHANGED <<now, sessions, disabled_upto, logged_out, role_permissions, warehouses>>

\* a request to a route behind require_permission that writes nothing: when the
\* dependency lets it pass, the route's handler runs for the user
protected_route(r) ==
    /\ proc.pc = "idle"
    /\ proc' = IF require_permission(r.required_codes, r.payload).code = 200
               THEN [InvIdle EXCEPT !.pc = "handler", !.op = "protected",
                                    !.email = r.payload.user_id]
               ELSE proc
    /\ UNCHANGED <<now, users, sessions, disabled_upto, logged_out, invitations,
                   role_permissions, warehouses>>

protected_route_returns ==
    /\ proc.pc = "handler"
    /\ proc' = InvIdle
    /\ UNCHANGED <<now, users, sessions, disabled_upto, logged_out, invitations,
                   role_permissions, warehouses>>

InvNext ==
    \/ \E r \in InvRequests : InvServe(r)
    \/ \E r \in InvRequests : InvBegin(r)
    \/ InvFinish
    \/ \E r \in ProtectedRequests : protected_route(r)
    \/ protected_route_returns
    \/ \E u \in DOMAIN users : disable_user(u)
    \/ Tick

InvSpec == InvInit /\ [][InvNext]_vars

\* --------------------------------------------------- claims on the invitations
Pending(email) ==
    {i \in DOMAIN invitations :
        invitations[i].email = email /\ invitations[i].status = "PENDING"}

\* the tables after a request r that is served alone
After(r) == get_db(InvHandle(InvRead(r)))

Unchanged(after) == after.users = users /\ after.invitations = invitations

AcceptRequests == {r \in InvRequests : r.op = "accept"}
CreateRequests == {r \in InvRequests : r.op = "create_invitation"}

\* C12: at most one invitation with status PENDING exists per email, also when
\* create_invitation calls for the same email run concurrently.
C12_OnePendingPerEmail == \A e \in Users : Cardinality(Pending(e)) <= 1

\* C13: after an accept with token t has succeeded (the invitation is ACCEPTED), every
\* later accept with t fails with 400 and changes neither the users nor the invitations.
C13_AcceptNotReentrant ==
    \A i \in DOMAIN invitations :
        invitations[i].status = "ACCEPTED" =>
            \A r \in AcceptRequests :
                r.token = invitations[i].token =>
                    /\ InvHandle(InvRead(r)).code = 400
                    /\ Unchanged(After(r))

\* an accepted invitation whose identity a retried accept could still alter: it is not
\* expired, and the retry brings another password
C13_Witness ==
    \E i \in DOMAIN invitations :
        /\ invitations[i].status = "ACCEPTED"
        /\ invitations[i].expires_at >= now
        /\ invitations[i].email \in DOMAIN users
        /\ \E pw \in Passwords :
              users[invitations[i].email].password_hash # hash_password(pw)

\* C14: an accept on a PENDING invitation whose expires_at is in the past fails with
\* 400 and leaves the stored status EXPIRED when the request has ended, so that a second
\* accept with the token finds no PENDING invitation; neither call creates or
\* activates an identity.
C14_ExpiredAcceptFlips ==
    \A i \in DOMAIN invitations :
        (invitations[i].status = "PENDING" /\ invitations[i].expires_at < now) =>
            \A r \in AcceptRequests :
                r.token = invitations[i].token =>
                    /\ InvHandle(InvRead(r)).code = 400
                    /\ After(r).invitations[i].status = "EXPIRED"
                    /\ After(r).users = users

\* the accept requests that fail after the invitation lookup for the reasons C15
\* names: the invitation is PENDING and not expired, and its role is missing from the
\* catalog or is OPERATOR while the request brings no warehouse id
FailsAfterLookup(r) ==
    /\ r.op = "accept"
    /\ \E i \in pending_invitation(r.token) :
          /\ invitations[i].expires_at >= now
          /\ \/ invitations[i].role_assigned \notin RoleCatalog
             \/ invitations[i].role_assigned = "OPERATOR" /\ r.warehouse_id = NoWarehouse

C16_StatusForward ==
    [][\A i \in DOMAIN invitations :
          invitations'[i].status # invitations[i].status =>
              /\ invitations[i].status = "PENDING"
              /\ invitations'[i].status \in {"ACCEPTED", "EXPIRED"}]_vars

\* an accept is in flight on an invitation that another accept has meanwhile moved to
\* ACCEPTED, and the email can be invited again
C16_Witness ==
    /\ proc.op = "accept"
    /\ invitations[proc.invite].status = "ACCEPTED"
    /\ Len(invitations) < MaxInvitations

\* the status of an identity changes in this step from a to b
StatusStep(u, a, b) ==
    /\ u \in DOMAIN users /\ u \in DOMAIN users'
    /\ users[u].status = a /\ users'[u].status = b

\* C17: DISABLED is terminal: an identity that is DISABLED never becomes ACTIVE again,
\* and the only status changes are INVITED to ACTIVE and ACTIVE to DISABLED.
C17_DisabledTerminal ==
    [][\A u \in DOMAIN users :
          (u \in DOMAIN users' /\ users'[u].status # users[u].status) =>
              \/ StatusStep(u, "INVITED", "ACTIVE")
              \/ StatusStep(u, "ACTIVE", "DISABLED")]_vars

\* an ACTIVE identity owns the email, or a PENDING invitation exists for it
Blocked(email) ==
    \/ email \in DOMAIN users /\ users[email].status = "ACTIVE"
    \/ Pending(email) # {}

\* the invitation a create_invitation(email, role_assigned) adds at this moment
NewInvitation(email, role_assigned) ==
    [email |-> email, role_assigned |-> role_assigned, token |-> Len(invitations) + 1,
     expires_at |-> now + InvitationExpire, status |-> "PENDING"]

\* the call answers 409 and stores nothing
Conflicts(r) == InvHandle(InvRead(r)).code = 409 /\ Unchanged(After(r))

\* the call succeeds and stores exactly the one new invitation
CreatesOne(r) ==
    /\ InvHandle(InvRead(r)).code = 201
    /\ After(r).users = users
    /\ After(r).invitations = Append(invitations, NewInvitation(r.email, r.role_assigned))

StoredCodes(u) == UNION {role_permissions[r] : r \in users[u].roles}

\* C19: the permission codes used for an authorization decision are the union of the
\* codes of the identity's roles as stored at the time of the request, whatever role
\* names the access token embeds: a set of required codes passes exactly when it is
\* within that union.
C19_GrantedCodesAreStored ==
    \A p \in Payloads :
        /\ collect_permission_codes(load_user_with_permissions(p.user_id))
              = StoredCodes(p.user_id)
        /\ users[p.user_id].status # "DISABLED" =>
              \A required \in SUBSET Codes :
                  (require_permission(required, p).code = 200)
                      <=> (required \subseteq StoredCodes(p.user_id))

\* a request was authorized for an identity that is being served while its roles have
\* grown since, under a stored mapping that differs from the seed's
C19_Witness ==
    /\ proc.op = "protected"
    /\ users[proc.email].status = "ACTIVE"
    /\ users[proc.email].roles = RoleCatalog
    /\ role_permissions # ROLE_PERMISSIONS

\* the outcomes of session validation that let a bearer token pass
Validated(tk) == {o \in get_current_user_token(tk, "request") : ~o.done}

\* the payload that session validation hands on to authorization
token_payload(o) == [user_id |-> o.locals.user_id, role_names |-> {}]

\* C20: for a request that passed session validation, authorization fails with 403
\* exactly when the identity is DISABLED or the required codes are not all granted,
\* and succeeds otherwise; with no required codes it succeeds for every identity that
\* is not DISABLED.
C20_ForbiddenIff ==
    \A tk \in Tokens : \A o \in Validated(tk) :
        LET barred == users[tk.sub].status = "DISABLED"
        IN  /\ \A required \in SUBSET Codes :
                   require_permission(required, token_payload(o)).code =
                       IF barred \/ ~(required \subseteq StoredCodes(tk.sub))
                       THEN 403 ELSE 200
            /\ get_current_active_user(o.locals).response.code =
                   IF barred THEN 403 ELSE 200

\* ================================================================ data scope
\* rbac/context_resolver.py and the services that take a DataScope
WarehouseIds == {"w1", "w2"}
WarehouseNames == {"n0", "n1"}
ClientIds == {"c1"}
ScopeRoles == {"ADMIN", "OPERATOR", "INVENTORY_MANAGER", "BILLING_MANAGER", "CLIENT"}
ScopeUsers == {"u1", "u2"}

\* permission_seed.ROLE_PERMISSIONS for the five roles, on the codes the routes below
\* require
SeededRolePermissions ==
    [r \in ScopeRoles |->
        CASE r = "ADMIN" -> {"warehouse.create", "warehouse.update",
                             "user.invite.operator", "inventory.view"}
          [] r \in {"OPERATOR", "INVENTORY_MANAGER", "CLIENT"} -> {"inventory.view"}
          [] OTHER -> {}]

\* a stored mapping in which warehouse.update was granted beyond ADMIN
ScopeRoleTables ==
    {SeededRolePermissions,
     [SeededRolePermissions EXCEPT
         !["OPERATOR"] = {"inventory.view", "warehouse.update", "user.invite.operator"},
         !["BILLING_MANAGER"] = {"warehouse.update", "user.invite.operator"}]}

DataScope(is_admin, warehouse_id, client_id, user_id, role_names) ==
    [is_admin |-> is_admin, warehouse_id |-> warehouse_id, client_id |-> client_id,
     user_id |-> user_id, role_names |-> role_names]

\* faulty variant of resolve_data_scope: the client link is looked at before the
\* operator roles (C21 fails under it)
resolve_data_scope_client_first(user_id) ==
    LET user == users[user_id]
        scope == DataScope(FALSE, NoWarehouse, NoClient, user_id, user.roles)
    IN  IF "ADMIN" \in user.roles
        THEN [code |-> 200, detail |-> "", scope |-> [scope EXCEPT !.is_admin = TRUE]]
        ELSE IF "CLIENT" \in user.roles
        THEN IF user.client = NoClient
             THEN [code |-> 403, detail |-> "Client profile missing", scope |-> scope]
             ELSE [code |-> 200, detail |-> "",
                   scope |-> [scope EXCEPT !.client_id = user.client]]
        ELSE IF "OPERATOR" \in user.roles \/ "INVENTORY_MANAGER" \in user.roles
        THEN IF user.operator_profile = NoWarehouse
             THEN [code |-> 403, detail |-> "Operator profile missing", scope |-> scope]
             ELSE [code |-> 200, detail |-> "",
                   scope |-> [scope EXCEPT !.warehouse_id = user.operator_profile]]
        ELSE [code |-> 200, detail |-> "", scope |-> scope]

\* context_resolver.py lines 44-86
resolve_data_scope(user_id) ==
    LET user == users[user_id]
        scope == DataScope(FALSE, NoWarehouse, NoClient, user_id, user.roles)
    IN  IF "ADMIN" \in user.roles
        THEN [code |-> 200, detail |-> "", scope |-> [scope EXCEPT !.is_admin = TRUE]]
        ELSE IF "OPERATOR" \in user.roles \/ "INVENTORY_MANAGER" \in user.roles
        THEN IF user.operator_profile = NoWarehouse
             THEN [code |-> 403, detail |-> "Operator profile missing", scope |-> scope]
             ELSE [code |-> 200, detail |-> "",
                   scope |-> [scope EXCEPT !.warehouse_id = user.operator_profile]]
        ELSE IF "CLIENT" \in user.roles
        THEN IF user.client = NoClient
             THEN [code |-> 403, detail |-> "Client profile missing", scope |-> scope]
             ELSE [code |-> 200, detail |-> "",
                   scope |-> [scope EXCEPT !.client_id = user.client]]
        ELSE [code |-> 200, detail |-> "", scope |-> scope]

\* warehouse_service.py lines 40-60, with a page that holds the whole table: the ids
\* of the rows returned
list_warehouses(scope) ==
    IF scope.is_admin THEN DOMAIN warehouses
    ELSE IF scope.warehouse_id # NoWarehouse
    THEN {w \in DOMAIN warehouses : w = scope.warehouse_id}
    ELSE {}

\* warehouse_service.py lines 63-82
get_warehouse_by_id(warehouse_id, scope) ==
    IF ~scope.is_admin /\ scope.warehouse_id # NoWarehouse
           /\ scope.warehouse_id # warehouse_id
    THEN [code |-> 403, detail |-> "Access denied to this warehouse"]
    ELSE IF warehouse_id \notin DOMAIN warehouses
    THEN [code |-> 404, detail |-> "Warehouse not found"]
    ELSE [code |-> 200, detail |-> ""]

\* warehouse_service.py lines 85-102: the table after the call
update_warehouse(warehouse_id, scope, name) ==
    IF get_warehouse_by_id(warehouse_id, scope).code = 200
    THEN [warehouses EXCEPT ![warehouse_id] = name]
    ELSE warehouses

\* user_service.py lines 40-80, with a page that holds the whole table: the ids of the
\* rows returned
list_users(scope) ==
    IF scope.is_admin THEN DOMAIN users
    ELSE IF scope.warehouse_id # NoWarehouse
    THEN {u \in DOMAIN users : users[u].operator_profile = scope.warehouse_id}
    ELSE {u \in DOMAIN users : u = scope.user_id}

NoJWT == [payload |-> <<>>, signature |-> <<>>]

ScopeIdle == [pc |-> "idle", op |-> "", user_id |-> "", warehouse_id |-> NoWarehouse,
              code |-> 0, detail |-> "", rows |-> {}, token |-> NoJWT]

ScopeResponse(op, user_id, warehouse_id, code, detail, rows) ==
    [pc |-> "response", op |-> op, user_id |-> user_id, warehouse_id |-> warehouse_id,
     code |-> code, detail |-> detail, rows |-> rows, token |-> NoJWT]

\* a route: the permission dependency, then resolve_data_scope, then the service
Guarded(op, user_id, warehouse_id, required_codes) ==
    LET allowed == require_permission(required_codes,
                                      [user_id |-> user_id, role_names |-> {}])
        resolved == resolve_data_scope(user_id)
    IN  IF allowed.code # 200
        THEN ScopeResponse(op, user_id, warehouse_id, allowed.code, allowed.detail, {})
        ELSE IF resolved.code # 200
        THEN ScopeResponse(op, user_id, warehouse_id, resolved.code, resolved.detail, {})
        ELSE ScopeResponse(op, user_id, warehouse_id, 200, "", {})

ScopeFrame == UNCHANGED <<now, users, sessions, disabled_upto, logged_out, invitations,
                          role_permissions>>

\* admin_controller.py lines 54-63
list_warehouses_route(user_id) ==
    /\ proc.pc = "idle"
    /\ LET g == Guarded("list_warehouses", user_id, NoWarehouse, {"warehouse.create"})
       IN  proc' = IF g.code # 200 THEN g
                   ELSE [g EXCEPT !.rows = list_warehouses(resolve_data_scope(user_id).scope)]
    /\ UNCHANGED warehouses
    /\ ScopeFrame

\* admin_controller.py lines 66-82
update_warehouse_route(user_id, warehouse_id, name) ==
    /\ proc.pc = "idle"
    /\ LET g == Guarded("update_warehouse", user_id, warehouse_id, {"warehouse.update"})
           scope == resolve_data_scope(user_id).scope
           found == get_warehouse_by_id(warehouse_id, scope)
       IN  IF g.code # 200
           THEN proc' = g /\ UNCHANGED warehouses
           ELSE /\ proc' = [g EXCEPT !.code = found.code, !.detail = found.detail,
                                     !.rows = IF found.code = 200 THEN {warehouse_id}
                                              ELSE {}]
                /\ warehouses' = update_warehouse(warehouse_id, scope, name)
    /\ ScopeFrame

\* admin_controller.py lines 86-107
list_users_route(user_id) ==
    /\ proc.pc = "idle"
    /\ LET g == Guarded("list_users", user_id, NoWarehouse, {"user.invite.operator"})
       IN  proc' = IF g.code # 200 THEN g
                   ELSE [g EXCEPT !.rows = list_users(resolve_data_scope(user_id).scope)]
    /\ UNCHANGED warehouses
    /\ ScopeFrame

\* operator_controller.py lines 25-44
get_my_warehouse(user_id) ==
    /\ proc.pc = "idle"
    /\ LET g == Guarded("get_my_warehouse", user_id, NoWarehouse, {"inventory.view"})
           scope == resolve_data_scope(user_id).scope
           found == get_warehouse_by_id(scope.warehouse_id, scope)
       IN  proc' = IF g.code # 200 THEN g
                   ELSE IF scope.warehouse_id = NoWarehouse
                   THEN [g EXCEPT !.code = 403, !.detail = "No warehouse assigned"]
                   ELSE [g EXCEPT !.warehouse_id = scope.warehouse_id,
                                  !.code = found.code, !.detail = found.detail,
                                  !.rows = IF found.code = 200 THEN {scope.warehouse_id}
                                           ELSE {}]
    /\ UNCHANGED warehouses
    /\ ScopeFrame

\* ------------------------------------------------- access tokens as JWTs
\* the claims a JWT of the application can carry, in the order they are serialized
ClaimNames == <<"sub", "user_id", "role_ids", "role_names", "device_id", "session_id",
                "warehouse_id", "client_id", "exp", "type">>

\* the order in which user.roles is loaded
RoleOrder == <<"ADMIN", "OPERATOR", "INVENTORY_MANAGER", "BILLING_MANAGER", "CLIENT">>

Filter(seq, keep) == SelectSeq(seq, LAMBDA x : x \in keep)

\* str(r.id) of the role named r
role_id(r) == <<"id", r>>

\* auth_service.py lines 49-65: a dict, here a function from claim names to values
build_access_payload(user_id, session_id, device_id) ==
    LET user == users[user_id]
        role_names == Filter(RoleOrder, user.roles)
        names == {"sub", "user_id", "role_ids", "role_names", "device_id", "session_id"}
                   \cup (IF user.operator_profile # NoWarehouse THEN {"warehouse_id"}
                         ELSE {})
                   \cup (IF user.client # NoClient THEN {"client_id"} ELSE {})
    IN  [k \in names |->
            CASE k \in {"sub", "user_id"} -> user_id
              [] k = "role_ids" -> [i \in DOMAIN role_names |-> role_id(role_names[i])]
              [] k = "role_names" -> role_names
              [] k = "device_id" -> device_id
              [] k = "session_id" -> session_id
              [] k = "warehouse_id" -> user.operator_profile
              [] OTHER -> user.client]

\* json.dumps of the claims: the members in order, each a pair of name and value
json_dumps(claims) ==
    LET names == Filter(ClaimNames, DOMAIN claims)
    IN  [i \in DOMAIN names |-> <<names[i], claims[names[i]]>>]

\* json.loads of a serialized object
json_loads(text) ==
    [k \in {text[i][1] : i \in DOMAIN text} |->
        text[CHOOSE i \in DOMAIN text : text[i][1] = k][2]]

SECRET_KEY == "CHANGE-ME"

\* the HS256 signature of a serialized payload under a key
hs256(key, text) == <<"HS256", key, text>>

\* jose.jwt.encode
jwt_encode(claims, key) ==
    [payload |-> json_dumps(claims), signature |-> hs256(key, json_dumps(claims))]

\* jose.jwt.decode at time t: the signature, then the exp claim
jwt_decode(token, key, t) ==
    IF token.signature # hs256(key, token.payload)
    THEN [ok |-> FALSE, payload |-> <<>>]
    ELSE LET claims == json_loads(token.payload)
         IN  IF "exp" \in DOMAIN claims /\ claims["exp"] < t
             THEN [ok |-> FALSE, payload |-> <<>>]
             ELSE [ok |-> TRUE, payload |-> claims]

\* data.copy() with update(extra)
dict_update(data, extra) ==
    [k \in DOMAIN data \cup DOMAIN extra |->
        IF k \in DOMAIN extra THEN extra[k] ELSE data[k]]

\* faulty variant of encode_access_token: a type claim is added beside exp (C23 fails
\* under it)
encode_access_token_typed(data) ==
    jwt_encode(dict_update(data, [k \in {"exp", "type"} |->
                                    IF k = "exp" THEN now + AccessTokenExpire
                                    ELSE "access"]), SECRET_KEY)

\* security.py lines 51-57, create_access_token down to the JWT it returns
encode_access_token(data) ==
    jwt_encode(dict_update(data, [k \in {"exp"} |-> now + AccessTokenExpire]), SECRET_KEY)

\* security.py lines 68-78
decode_access_token(token, t) ==
    LET decoded == jwt_decode(token, SECRET_KEY, t)
    IN  IF decoded.ok THEN [code |-> 200, payload |-> decoded.payload]
        ELSE [code |-> 401, payload |-> <<>>]

SessionNames == {"s1"}

\* auth_service.py lines 153-157: the access token of a login answer
issue_access_token(user_id, session_id, device_id) ==
    /\ proc.pc = "idle"
    /\ proc' = [ScopeResponse("issue", user_id, NoWarehouse, 200, "", {}) EXCEPT
                    !.token = encode_access_token(
                                  build_access_payload(user_id, session_id, device_id))]
    /\ UNCHANGED warehouses
    /\ ScopeFrame

\* security.py lines 84-100: the token just issued comes back as a bearer token and is
\* decoded
verify_access_token ==
    /\ proc.pc = "response"
    /\ proc.op = "issue"
    /\ proc' = [proc EXCEPT !.op = "verify",
                            !.code = decode_access_token(proc.token, now).code]
    /\ UNCHANGED warehouses
    /\ ScopeFrame

\* the response has been sent
scope_respond ==
    /\ proc.pc = "response"
    /\ proc' = ScopeIdle
    /\ UNCHANGED warehouses
    /\ ScopeFrame

\* the caller u1 with any roles and links, beside an operator of warehouse w1
ScopeInit ==
    /\ now = 0
    /\ \E roles \in SUBSET ScopeRoles, profile \in {NoWarehouse} \cup WarehouseIds,
          client \in {NoClient} \cup ClientIds :
          users = [u \in ScopeUsers |->
                      IF u = "u1"
                      THEN [status |-> "ACTIVE", roles |-> roles,
                            operator_profile |-> profile, client |-> client]
                      ELSE [status |-> "ACTIVE", roles |-> {"OPERATOR"},
                            operator_profile |-> "w1", client |-> NoClient]]
    /\ sessions = <<>>
    /\ proc = ScopeIdle
    /\ disabled_upto = [u \in Users |-> -1]
    /\ logged_out = {}
    /\ invitations = <<>>
    /\ role_permissions \in ScopeRoleTables
    /\ warehouses = [w \in WarehouseIds |-> "n0"]

ScopeNext ==
    \/ \E u \in ScopeUsers : list_warehouses_route(u)
    \/ \E u \in ScopeUsers, w \in WarehouseIds \cup {"w3"}, n \in WarehouseNames :
           update_warehouse_route(u, w, n)
    \/ \E u \in ScopeUsers : list_users_route(u)
    \/ \E u \in ScopeUsers : get_my_warehouse(u)
    \/ \E u \in ScopeUsers, s \in SessionNames, d \in Devices :
           issue_access_token(u, s, d)
    \/ verify_access_token
    \/ scope_respond

ScopeSpec == ScopeInit /\ [][ScopeNext]_vars

\* ---------------------------------------------------------- claims on the scope
\* the scope kind of spec section 4.4 that a DataScope stands for
Tag(scope) ==
    IF scope.is_admin THEN <<"Admin">>
    ELSE IF scope.warehouse_id # NoWarehouse THEN <<"WarehouseBound", scope.warehouse_id>>
    ELSE IF scope.client_id # NoClient THEN <<"ClientBound", scope.client_id>>
    ELSE <<"SelfOnly", scope.user_id>>

Forbidden == <<"Forbidden">>

Resolved(u) ==
    LET r == resolve_data_scope(u)
    IN  IF r.code = 200 THEN Tag(r.scope) ELSE IF r.code = 403 THEN Forbidden
        ELSE <<"other">>

OperatorClass == {"OPERATOR", "INVENTORY_MANAGER"}

C22_QueriesIntersectScope ==
    \A u \in DOMAIN users :
        LET resolved == resolve_data_scope(u)
            scope == resolved.scope
        IN  resolved.code = 200 /\ ~scope.is_admin =>
               /\ \A w \in WarehouseIds \cup {"w3"} :
                      /\ get_warehouse_by_id(w, scope).code = 200 => w = scope.warehouse_id
                      /\ \A n \in WarehouseNames :
                             update_warehouse(w, scope, n) # warehouses
                                 => w = scope.warehouse_id
               /\ list_warehouses(scope) \subseteq {scope.warehouse_id}
               /\ scope.warehouse_id = NoWarehouse => list_users(scope) = {u}

ScopeCodes == UNION {SeededRolePermissions[r] : r \in ScopeRoles}

\* an enabled identity that lacks at least one of the required codes
Lacks(u, required) ==
    /\ users[u].status # "DISABLED"
    /\ ~(required \subseteq StoredCodes(u))

Denial(u, required) == require_permission(required, [user_id |-> u, role_names |-> {}])

\* C24: the permission-denial response is the same for every pair of enabled
\* identities that each lack at least one required code: its status and message are
\* one fixed pair, whichever codes are missing or granted and whichever roles are
\* stored.
C24_DenialIsGeneric ==
    \A u1 \in DOMAIN users, u2 \in DOMAIN users :
        \A r1 \in SUBSET ScopeCodes, r2 \in SUBSET ScopeCodes :
            Lacks(u1, r1) /\ Lacks(u2, r2) =>
                /\ Denial(u1, r1) = Denial(u2, r2)
                /\ Denial(u1, r1) = [code |-> 403, detail |-> "Insufficient permissions"]

\* a route has denied a caller that holds some codes and lacks the required one
C24_Witness ==
    /\ proc.pc = "response"
    /\ proc.code = 403
    /\ proc.detail = "Insufficient permissions"
    /\ StoredCodes(proc.user_id) # {}
    /\ role_permissions # SeededRolePermissions

\* ------------------------------------------- claims on sessions, continued
\* row s of a sessions table was last seen longer before t than the inactivity window
Stale(table, s, t) == t - table[s].last_seen_at > InactivityTimeout

\* no row of user u that is stale as of t is flagged active
NoStaleActive(table, u, t) ==
    \A s \in DOMAIN table : table[s].user_id = u /\ Stale(table, s, t) => ~table[s].is_active

\* C25: authenticate collects the identity's stale sessions before the concurrency
\* check: a 409 is caused only by a session that is active and within the window on
\* another device, a reused session is active and within the window, and after a
\* successful authenticate no session of the identity that is stale as of the call
\* is still flagged active.
C25_StaleCollectedFirst ==
    /\ \A u \in Users, d \in Devices :
           \A o \in authenticate_user_read(u, TRUE, d) :
               /\ o = LoginConflict =>
                      \E s \in SessionIds : /\ sessions[s].user_id = u /\ Live(s)
                                            /\ sessions[s].device_id # d
               /\ ~o.done =>
                      /\ o.locals.session_id # 0 => Live(o.locals.session_id)
                      /\ NoStaleActive(authenticate_user_commit(o.locals).sessions, u, now)
    /\ proc.op = "login" =>
           NoStaleActive(authenticate_user_commit(proc).sessions, proc.user_id, proc.t)

\* a session that nobody logged out or disabled has been flagged inactive by a login
\* that created a later session on another device
C25_Witness ==
    \E s1 \in SessionIds, s2 \in SessionIds :
        /\ s1 < s2
        /\ sessions[s1].user_id = sessions[s2].user_id
        /\ sessions[s1].device_id # sessions[s2].device_id
        /\ ~sessions[s1].is_active /\ sessions[s2].is_active
        /\ s1 \notin logged_out
        /\ s1 \notin DisabledSessions(sessions[s1].user_id)
        /\ Stale(sessions, s1, sessions[s2].last_seen_at)

\* what serving refresh(token) in this state yields: the sessions table after the
\* request and its response
refresh_access_token(token) ==
    {IF o.done THEN [sessions |-> sessions, response |-> o.response]
     ELSE refresh_access_token_commit(o.locals) :
        o \in refresh_access_token_read(sessions, token)}

\* tk is the current refresh token of session s: unexpired, and its hash is stored
Current(tk, s) ==
    /\ tk \in RefreshTokens(s)
    /\ jwt_decode_ok(tk)
    /\ sessions[s].user_id = tk.sub
    /\ sessions[s].refresh_token_hash = hash_token(tk)

\* C26: a refresh call with the current refresh token of a session whose last_seen_at
\* is older than the inactivity window fails with 401 and does not update
\* last_seen_at.
C26_RefreshDoesNotRevive ==
    \A s \in SessionIds, tk \in Tokens :
        Current(tk, s) /\ ~InWindow(s) =>
            \A after \in refresh_access_token(tk) :
                /\ after.response.code = 401
                /\ after.sessions[s].last_seen_at = sessions[s].last_seen_at

\* token passes every check of refresh up to the stored hash and differs from the
\* token whose hash is stored
Mismatch(token) ==
    /\ jwt_decode_ok(token) /\ token.type = "refresh"
    /\ get_active_session_by_id(sessions, token.session_id) # {}
    /\ sessions[token.session_id].user_id = token.sub
    /\ sessions[token.session_id].refresh_token_hash # hash_token(token)

\* a refresh call that submits tk against the table returns a token pair
AcceptedIn(table, tk) ==
    \A o \in refresh_access_token_read(table, tk) :
        ~o.done /\ refresh_access_token_commit(o.locals).response.code = 200

\* C27: when refresh rejects a token because its hash is not the stored one, the call
\* fails with 401 and the session keeps its is_active flag, its stored hash and its
\* last_seen_at, and the holder of the current refresh token can still refresh.
C27_MismatchLeavesSession ==
    \A token \in Tokens :
        Mismatch(token) =>
            \A after \in refresh_access_token(token) :
                /\ after.response.code = 401
                /\ after.sessions[token.session_id] = sessions[token.session_id]
                /\ \A tk \in Tokens :
                       AcceptedIn(sessions, tk) => AcceptedIn(after.sessions, tk)

\* a session has rotated its refresh token: the token issued first is still unexpired
\* and no longer the stored one, and the current one is accepted
C27_Witness ==
    \E token \in Tokens, tk \in Tokens :
        /\ Mismatch(token)
        /\ tk.session_id = token.session_id
        /\ tk.sub = token.sub /\ tk.device_id = token.device_id
        /\ token.exp < tk.exp
        /\ Current(tk, tk.session_id)
        /\ AcceptedIn(sessions, tk)

\* C28: refresh accepts only tokens of type "refresh": an unexpired access token for
\* an active session fails with 401, and the session's stored hash stays the same.
C28_AccessTokenNotRefreshed ==
    \A token \in Tokens :
        token.type = "access" /\ jwt_decode_ok(token) =>
            \A after \in refresh_access_token(token) :
                /\ after.response.code = 401
                /\ \A s \in SessionIds :
                       after.sessions[s].refresh_token_hash = sessions[s].refresh_token_hash

\* an unexpired access token of an active, live session of an enabled user exists
C28_Witness ==
    \E token \in Tokens :
        /\ token.type = "access" /\ jwt_decode_ok(token)
        /\ token.session_id \in SessionIds
        /\ Live(token.session_id)
        /\ sessions[token.session_id].user_id = token.sub
        /\ sessions[token.session_id].device_id = token.device_id
        /\ users[token.sub].status = "ACTIVE"
        /\ refresh_access_token(token)
               = {[sessions |-> sessions,
                   response |-> Raise("refresh", 401, "Invalid token type").response]}

\* C29: a refresh token is never accepted as an access credential: per-request
\* session validation answers 401 to a bearer token of type "refresh", so it can
\* neither authenticate a request such as logout nor update last_seen_at.
C29_RefreshTokenNotBearer ==
    \A token \in Tokens, op \in {"logout", "request"} :
        token.type = "refresh" => Unauthorized(get_current_user_token(token, op))

\* the outcome of a refresh call that has read the session and finds the owner
\* DISABLED: 403, the stored hash kept, the session inactive
RefusedAndRevoked(after, s) ==
    /\ after.response.code = 403
    /\ after.sessions[s].refresh_token_hash = sessions[s].refresh_token_hash
    /\ ~after.sessions[s].is_active

\* C30: a refresh call for a session whose owning identity is DISABLED never returns a
\* token pair: it fails with 403, does not rotate the stored hash, and the session is
\* inactive after the request.
C30_DisabledRefresh ==
    /\ \A s \in SessionIds, tk \in Tokens :
           Current(tk, s) /\ users[sessions[s].user_id].status = "DISABLED" =>
               \A after \in refresh_access_token(tk) : RefusedAndRevoked(after, s)
    /\ proc.op = "refresh" /\ users[proc.user_id].status = "DISABLED" =>
           RefusedAndRevoked(refresh_access_token_commit(proc), proc.session_id)

\* faulty variant of authenticate_user: a rejected call keeps the writes of the loop
\* that found the conflict and ends every session it looked at (C37 fails under it)
authenticate_user_evicts(email, password_ok, device_id) ==
    {IF o.done
     THEN [sessions |-> IF o.response.code = 409
                        THEN deactivate_all_user_sessions(sessions, email)
                        ELSE sessions,
           response |-> o.response]
     ELSE authenticate_user_commit(o.locals) :
        o \in authenticate_user_read(email, password_ok, device_id)}

\* what serving a login in this state yields: the sessions table after the request and
\* its response
authenticate_user(email, password_ok, device_id) ==
    {IF o.done THEN [sessions |-> sessions, response |-> o.response]
     ELSE authenticate_user_commit(o.locals) :
        o \in authenticate_user_read(email, password_ok, device_id)}

\* C31: an authenticate call with correct credentials for a DISABLED identity fails
\* with 403, creates no session, issues no tokens and leaves every session row as it
\* was.
C31_DisabledLoginRefused ==
    \A u \in Users, d \in Devices :
        users[u].status = "DISABLED" =>
            \A after \in authenticate_user(u, TRUE, d) :
                /\ after.response.code = 403
                /\ after.response.refresh_token = NoToken
                /\ after.response.session_id = 0
                /\ after.sessions = sessions

\* a DISABLED identity with two session rows, one of them still flagged active
C31_Witness ==
    \E u \in Users :
        /\ users[u].status = "DISABLED"
        /\ Len(sessions) = 2
        /\ \E s \in SessionIds : sessions[s].user_id = u /\ sessions[s].is_active

\* ------------------------------------------ claims on invitations, continued
\* the roles for which resolve_data_scope requires a linked record
ProfileRoles == {"OPERATOR", "INVENTORY_MANAGER", "CLIENT"}

\* C32: after a successful accept of an invitation whose role is OPERATOR,
\* INVENTORY_MANAGER or CLIENT, resolve_data_scope for the resulting identity does not
\* fail with the 403 of a missing profile.
C32_AcceptProvisionsProfile ==
    \A i \in DOMAIN invitations :
        /\ invitations[i].status = "ACCEPTED"
        /\ invitations[i].role_assigned \in ProfileRoles
        => resolve_data_scope(invitations[i].email).code # 403

MaxRows == 3
RegUsers == {"u1", "u2"}

\* result.rowcount of the UPDATE: the rows its WHERE clause selects
rowcount(table, user_id) ==
    Cardinality({s \in DOMAIN table : table[s].user_id = user_id /\ table[s].is_active})

\* a row as a login at time 0 stores it, active or ended since
RegRow(s, user_id, device_id, is_active) ==
    [user_id |-> user_id, device_id |-> device_id,
     refresh_token_hash |->
         hash_token([type |-> "refresh", sub |-> user_id, session_id |-> s,
                     device_id |-> device_id, exp |-> RefreshTokenExpire]),
     last_seen_at |-> 0, is_active |-> is_active]

RegInit ==
    /\ now = 0
    /\ users = [u \in RegUsers |-> [status |-> "ACTIVE", roles |-> {"OPERATOR"}]]
    /\ \E n \in 1..MaxRows :
          \E owner \in [1..n -> RegUsers], device \in [1..n -> Devices],
             flag \in [1..n -> BOOLEAN] :
              sessions = [s \in 1..n |-> RegRow(s, owner[s], device[s], flag[s])]
    /\ proc = Idle
    /\ disabled_upto = [u \in RegUsers |-> -1]
    /\ logged_out = {}
    /\ invitations = <<>>
    /\ role_permissions = ROLE_PERMISSIONS
    /\ warehouses = [w \in {"w1"} |-> "n0"]

RegNext == \E u \in RegUsers : disable_user(u)

RegSpec == RegInit /\ [][RegNext]_vars

\* C34: deactivate_all_user_sessions(U) returns exactly the number of U's sessions
\* that were active before the call, sets each of them inactive, leaves the sessions
\* of every other identity and U's inactive sessions unchanged, and returns 0 when
\* called again at once.
C34_DeactivateAllExact ==
    \A U \in RegUsers :
        LET active == {s \in SessionIds : sessions[s].user_id = U /\ sessions[s].is_active}
            after == deactivate_all_user_sessions(sessions, U)
        IN  /\ rowcount(sessions, U) = Cardinality(active)
            /\ DOMAIN after = DOMAIN sessions
            /\ \A s \in active : after[s] = [sessions[s] EXCEPT !.is_active = FALSE]
            /\ \A s \in SessionIds \ active : after[s] = sessions[s]
            /\ rowcount(after, U) = 0

\* u1 has been disabled with two sessions, while a session of u2 is still active
C34_Witness ==
    /\ users["u1"].status = "DISABLED" /\ users["u2"].status = "ACTIVE"
    /\ Cardinality({s \in SessionIds : sessions[s].user_id = "u1"}) = 2
    /\ \E s \in SessionIds : sessions[s].user_id = "u2" /\ sessions[s].is_active
    /\ disabled_upto["u1"] = Len(sessions)

\* C35: in every reachable state, also under concurrent authenticate calls for the
\* same identity from two devices, an identity never has two active sessions within
\* the inactivity window that are bound to different devices.
C35_OneDevicePerIdentity ==
    \A s1 \in SessionIds, s2 \in SessionIds :
        /\ sessions[s1].user_id = sessions[s2].user_id
        /\ Live(s1) /\ Live(s2)
        => sessions[s1].device_id = sessions[s2].device_id

\* no row is removed or rekeyed, and no row's is_active flag goes back to true
FlagMonotone ==
    /\ Len(sessions') >= Len(sessions)
    /\ \A s \in SessionIds :
           /\ sessions'[s].user_id = sessions[s].user_id
           /\ sessions'[s].device_id = sessions[s].device_id
           /\ sessions'[s].is_active => sessions[s].is_active

\* a login never picks an ended row, and when the identity has no active session the
\* session it returns has an id no row has had
EndedNeverReused ==
    \A u \in Users, d \in Devices :
        \A o \in authenticate_user_read(u, TRUE, d) :
            ~o.done =>
                /\ o.locals.session_id # 0 => sessions[o.locals.session_id].is_active
                /\ get_active_sessions(u) = {} =>
                       LET after == authenticate_user_commit(o.locals)
                       IN  /\ after.response.session_id \notin SessionIds
                           /\ Len(after.sessions) = Len(sessions) + 1
                           /\ \A s \in SessionIds : after.sessions[s] = sessions[s]

\* C36: a session's is_active flag is monotone: no operation sets it back to true on
\* an existing row, so a session ended by logout, disable or garbage collection is
\* never reused, and a later successful login on the same device creates a session
\* with a new id.
C36_ActiveFlagMonotone == [][FlagMonotone]_vars /\ []EndedNeverReused

\* a session has ended and a later login on the same device has created another one
C36_Witness ==
    \E s1 \in SessionIds, s2 \in SessionIds :
        /\ s1 < s2
        /\ sessions[s1].user_id = sessions[s2].user_id
        /\ sessions[s1].device_id = sessions[s2].device_id
        /\ ~sessions[s1].is_active /\ sessions[s2].is_active
        /\ s1 \in logged_out

\* the bearer check of get_current_user_token against a sessions table
ValidIn(table, tk) ==
    /\ jwt_decode_ok(tk)
    /\ tk.session_id \in DOMAIN table
    /\ table[tk.session_id].user_id = tk.sub
    /\ table[tk.session_id].is_active
    /\ table[tk.session_id].device_id = tk.device_id
    /\ ~inactivity_timeout(table[tk.session_id])

\* the sessions table as the rejected call holds it when it raises: the rows its loop
\* found stale carry is_active False until the unit of work is rolled back
AtRaise(user_id) ==
    [s \in DOMAIN sessions |->
        IF s \in stale_sessions(get_active_sessions(user_id), now)
        THEN [sessions[s] EXCEPT !.is_active = FALSE]
        ELSE sessions[s]]

\* table leaves session s and its tokens as they are in sessions
Untouched(table, s) ==
    /\ s \in DOMAIN table
    /\ table[s] = sessions[s]
    /\ \A tk \in Tokens :
           tk.session_id = s =>
               /\ ValidIn(sessions, tk) => ValidIn(table, tk)
               /\ AcceptedIn(sessions, tk) => AcceptedIn(table, tk)

\* C37: an authenticate call rejected with Conflict changes nothing about the
\* still-active session on the other device: its id, device id, stored refresh hash,
\* last_seen_at and is_active flag are the same after the rejected call, and its tokens
\* keep working.
C37_ConflictLeavesOtherSession ==
    \A u \in Users, d \in Devices :
        \A after \in authenticate_user(u, TRUE, d) :
            after.response.code = 409 =>
                \A s \in SessionIds :
                    (sessions[s].user_id = u /\ Live(s) /\ sessions[s].device_id # d) =>
                        /\ Untouched(after.sessions, s)
                        /\ Untouched(AtRaise(u), s)

\* a login is rejected with Conflict in a state where its loop has also found a stale
\* row, and the session in its way has a refresh token that is exchanged
C37_Witness ==
    \E u \in Users, d \in Devices, s \in SessionIds, st \in SessionIds :
        /\ \E after \in authenticate_user(u, TRUE, d) : after.response.code = 409
        /\ sessions[s].user_id = u /\ Live(s) /\ sessions[s].device_id # d
        /\ st \in stale_sessions(get_active_sessions(u), now)
        /\ \E tk \in Tokens : tk.session_id = s /\ AcceptedIn(sessions, tk)

\* a PENDING invitation whose expires_at has passed
ExpiredPending(i) == invitations[i].status = "PENDING" /\ invitations[i].expires_at < now

\* create_invitation for the email of invitation i is refused because of a pending
\* invitation, and nothing is stored
Blocks(i) ==
    \A r \in CreateRequests :
        r.email = invitations[i].email =>
            /\ InvHandle(InvRead(r)).code = 409
            /\ Unchanged(After(r))

\* C38: a PENDING invitation whose expires_at has passed still blocks create_invitation
\* for the same email with 409 Conflict; it stops blocking after an accept call with
\* its token has flipped it to EXPIRED.
C38_ExpiredPendingBlocksUntilAccept ==
    \A i \in DOMAIN invitations :
        ExpiredPending(i) =>
            /\ Blocks(i)
            /\ \A r \in AcceptRequests :
                   r.token = invitations[i].token =>
                       /\ After(r).invitations[i].status = "EXPIRED"
                       /\ \A j \in DOMAIN After(r).invitations :
                              After(r).invitations[j].email = invitations[i].email =>
                                  After(r).invitations[j].status # "PENDING"

\* C39: every successful refresh returns a refresh token different from the submitted
\* one, and every successful re-login on the device of the session returns a refresh
\* token different from the one whose hash was stored, also when the new token is
\* issued within the same clock second as the old one.
C39_RotationChangesToken ==
    /\ \A token \in Tokens :
           \A after \in refresh_access_token(token) :
               after.response.code = 200 => after.response.refresh_token # token
    /\ \A u \in Users, d \in Devices :
           \A o \in authenticate_user_read(u, TRUE, d) :
               (~o.done /\ o.locals.session_id # 0) =>
                   hash_token(authenticate_user_commit(o.locals).response.refresh_token)
                       # sessions[o.locals.session_id].refresh_token_hash
====
